---- MODULE Spec2Model ----
(***************************************************************************)
(* State-machine model of src/main.js (3D Gerber viewer): archive loading, *)
(* render passes (renderAllViews -> pcbStackup -> update3DView), texture   *)
(* generation (svgToTexture) and PNG export (handlePngExport).             *)
(*                                                                         *)
(* JavaScript runs one event-loop task at a time, so every action below is *)
(* one callback run to its next suspension point (a promise that is still  *)
(* pending, or the end of the handler).                                    *)
(***************************************************************************)
EXTENDS Integers, Sequences, FiniteSets, TLC

\* ---------------------------------------------------------------- bounds
\* Render passes (calls of renderAllViews that reach pcbStackup) per behaviour.
MaxPasses == 2
\* Largest viewBox coordinate drawn for a side document in SpecSingle.
MaxCoord == 3
\* PNG exports requested per behaviour in SpecPng.
MaxExports == 1

\* ------------------------------------------------------- program constants
MM_PER_INCH_X10 == 254
baseResolution == 2048

\* ------------------------------------------------------------- JS values
\* Every JavaScript value that may be null or undefined is a record with an
\* isNull flag (or, for arrays, the empty tuple), so that values of one kind
\* stay comparable.

\* The empty string: a markup that is falsy.
NoMarkup == ""
\* A missing viewBox array.
NoViewBox == <<>>
\* A missing fragment list (converter.layer undefined).
NoFragments == "undefined"

\* Vector markup is represented by what SVGLoader finds in it:
\*   "malformed" - the parse throws,  "empty" - parses, no path yields a shape,
\*   "closed"    - parses to one closed contour.
Markups == {"malformed", "empty", "closed"}

\* A composite document of one side (stackup.top / stackup.bottom).
SideDoc(svg, viewBox, width, height, units) ==
    [isNull |-> FALSE, svg |-> svg, viewBox |-> viewBox,
     width |-> width, height |-> height, units |-> units]

NullDoc ==
    [isNull |-> TRUE, svg |-> NoMarkup, viewBox |-> NoViewBox,
     width |-> 0, height |-> 0, units |-> ""]

\* outlineLayer.converter: raw path fragments plus the transform descriptor.
Converter(layer, viewBox, width, height, units) ==
    [isNull |-> FALSE, layer |-> layer, viewBox |-> viewBox,
     width |-> width, height |-> height, units |-> units]

NullConverter ==
    [isNull |-> TRUE, layer |-> NoFragments, viewBox |-> NoViewBox,
     width |-> 0, height |-> 0, units |-> ""]

\* A typed layer of stackup.layers.
Layer(type, svg, converter) ==
    [isNull |-> FALSE, type |-> type, svg |-> svg, converter |-> converter]

NullLayer ==
    [isNull |-> TRUE, type |-> "", svg |-> NoMarkup, converter |-> NullConverter]

\* stackup.layers: an array of layers, or undefined.
LayerList(items) == [isNull |-> FALSE, items |-> items]
NullLayerList == [isNull |-> TRUE, items |-> <<>>]

\* The value pcbStackup resolves with.
Stackup(layers, top, bottom) ==
    [isNull |-> FALSE, layers |-> layers, top |-> top, bottom |-> bottom]

NullStackup ==
    [isNull |-> TRUE, layers |-> NullLayerList, top |-> NullDoc, bottom |-> NullDoc]

\* ------------------------------------------------------- pure functions

\* getShapesFromSVG: the list of shapes of a markup string; empty on a falsy
\* string and when the parse throws.
GetShapesFromSVG(svgString) ==
    IF svgString = NoMarkup THEN <<>>
    ELSE IF svgString = "malformed" THEN <<>>
    ELSE IF svgString = "closed" THEN <<"shape">>
    ELSE <<>>

\* stackup.layers.find(l => l.type === 'outline'): the first outline layer.
RECURSIVE FindOutline(_)
FindOutline(items) ==
    IF items = <<>> THEN NullLayer
    ELSE IF Head(items).type = "outline" THEN Head(items)
    ELSE FindOutline(Tail(items))

\* layer.join(''): the fragments of a raw outline joined to one path string.
\* A fragment list is represented by the markup its fragments join to.
JoinFragments(layer) == layer

\* The scale of a ready-markup outline, as a fraction <<numerator, denominator>>.
UnitScale == <<1, 1>>

\* Mutant of ResolveOutline: a converter is used without asking for its viewBox.
ResolveOutlineNoViewBoxCheck(outlineLayer) ==
    IF outlineLayer.svg # NoMarkup
    THEN [usable |-> TRUE, svg |-> outlineLayer.svg, scale |-> UnitScale]
    ELSE IF /\ ~outlineLayer.converter.isNull
            /\ outlineLayer.converter.layer # NoFragments
    THEN [usable |-> TRUE, svg |-> JoinFragments(outlineLayer.converter.layer),
          scale |-> UnitScale]
    ELSE [usable |-> FALSE, svg |-> NoMarkup, scale |-> UnitScale]

\* Mutant of ResolveOutline: the solid of a raw-fragment outline is not scaled.
ResolveOutlineUnscaled(outlineLayer) ==
    IF outlineLayer.svg # NoMarkup
    THEN [usable |-> TRUE, svg |-> outlineLayer.svg, scale |-> UnitScale]
    ELSE IF /\ ~outlineLayer.converter.isNull
            /\ outlineLayer.converter.layer # NoFragments
            /\ outlineLayer.converter.viewBox # NoViewBox
    THEN [usable |-> TRUE, svg |-> JoinFragments(outlineLayer.converter.layer),
          scale |-> UnitScale]
    ELSE [usable |-> FALSE, svg |-> NoMarkup, scale |-> UnitScale]

\* The outline resolution of update3DView: the markup to parse and the scale,
\* or usable = FALSE when neither representation is present.
ResolveOutline(outlineLayer) ==
    IF outlineLayer.svg # NoMarkup
    THEN [usable |-> TRUE, svg |-> outlineLayer.svg, scale |-> UnitScale]
    ELSE IF /\ ~outlineLayer.converter.isNull
            /\ outlineLayer.converter.layer # NoFragments
            /\ outlineLayer.converter.viewBox # NoViewBox
    THEN LET c == outlineLayer.converter
             viewBoxWidth == c.viewBox[3] - c.viewBox[1]
         IN  [usable |-> TRUE,
              svg    |-> JoinFragments(c.layer),
              scale  |-> IF c.width # 0 /\ viewBoxWidth > 0
                         THEN <<c.width, viewBoxWidth>> ELSE UnitScale]
    ELSE [usable |-> FALSE, svg |-> NoMarkup, scale |-> UnitScale]

\* svgToTexture, the promise executor: the promise is rejected at once, or an
\* image decode is started and the promise stays pending.
SvgToTextureCall(stackupSide) ==
    IF stackupSide.svg = NoMarkup \/ stackupSide.viewBox = NoViewBox
    THEN "rejected"
    ELSE "pending"

\* Mutant of CanvasSize: the longer side of the viewBox gets the base resolution.
CanvasSizeLongerSide(viewBoxWidth, viewBoxHeight) ==
    IF viewBoxWidth >= viewBoxHeight
    THEN <<baseResolution, (baseResolution * viewBoxHeight) \div viewBoxWidth>>
    ELSE <<(baseResolution * viewBoxWidth) \div viewBoxHeight, baseResolution>>

\* canvas.width and canvas.height are unsigned long attributes, so a
\* fractional value is truncated: 2048 * (h / w) for integers h, w > 0 is
\* stored as (2048 * h) \div w.
CanvasSize(viewBoxWidth, viewBoxHeight) ==
    <<baseResolution, (baseResolution * viewBoxHeight) \div viewBoxWidth>>

\* The value of a rejected svgToTexture promise (no texture).
NoTexture == <<>>

\* Mutant of SvgToTextureOnload: only the width of the viewBox is checked.
SvgToTextureOnloadWidthOnly(stackupSide) ==
    LET viewBoxWidth  == stackupSide.viewBox[3] - stackupSide.viewBox[1]
        viewBoxHeight == stackupSide.viewBox[4] - stackupSide.viewBox[2]
    IN  IF viewBoxWidth <= 0
        THEN <<>>
        ELSE <<baseResolution, (baseResolution * viewBoxHeight) \div viewBoxWidth>>

\* svgToTexture, img.onload: NoTexture when the promise is rejected for a
\* viewBox of non-positive width or height, else the texture (its canvas size).
SvgToTextureOnload(stackupSide) ==
    LET viewBoxWidth  == stackupSide.viewBox[3] - stackupSide.viewBox[1]
        viewBoxHeight == stackupSide.viewBox[4] - stackupSide.viewBox[2]
    IN  IF viewBoxWidth <= 0 \/ viewBoxHeight <= 0
        THEN NoTexture
        ELSE CanvasSize(viewBoxWidth, viewBoxHeight)

\* svgToTexture, img.onerror: the promise is rejected.
SvgToTextureOnerror(stackupSide) == NoTexture

\* Math.round of the non-negative fraction num / den (den > 0).
MathRound(num, den) == (2 * num + den) \div (2 * den)

\* hexToRgba: the rgba() colour of a #rrggbb string with an alpha (in 1/100).
HexToRgba(hex, alpha) == <<hex, alpha>>

\* The options object renderAllViews builds from the active buttons: the
\* soldermask is nearly opaque for black and white, translucent otherwise.
RenderOptions(soldermaskColor) ==
    LET soldermaskAlpha ==
            IF soldermaskColor = "#000000" \/ soldermaskColor = "#FFFFFF"
            THEN 95 ELSE 75
    IN  [sm |-> HexToRgba(soldermaskColor, soldermaskAlpha)]

\* ------------------------------------------------------------ input sets
\* The archives the user can select (each at most once per behaviour) and the
\* names of the non-directory entries an archive may hold.
Files == {"a.zip", "b.zip"}
EntryNames == {"top.gbr", "outline.gbr"}
\* The soldermask buttons.
Colors == {"#000000", "#1E8E3E"}

Passes == 1..MaxPasses
Sides == {"top", "bottom"}

\* ------------------------------------------------------------------ state
VARIABLES
    loadedLayers,    \* the data store: sequence of layer records
    loads,           \* per file: the handleFileSelect promise chain
    activeColor,     \* the active soldermask button
    passes,          \* per render pass: where it is suspended and what it holds
    nextPass,        \* render passes started so far
    pcbGroup,        \* children of the THREE.Group, in insertion order
    camera,          \* 0: the initial position; p: framed by pass p
    currentStackup,  \* the cached stackup used by the exports
    thumbs,          \* the 2D thumbnails / download links, per side
    loadingMessage,  \* loadingMessage.style.display
    alerts,          \* the alert() dialogs shown so far
    consoleLog,      \* console.error / console.warn lines so far
    exports,         \* handlePngExport jobs, in request order
    blobUrls,        \* the blob URLs created so far, each with its revocations
    textures,        \* the THREE.CanvasTexture objects created and not disposed
    cachedBy         \* 0, or the pass whose compositor callback ran last

vars == <<loadedLayers, loads, activeColor, passes, nextPass, pcbGroup, camera,
          currentStackup, thumbs, loadingMessage, alerts, consoleLog, exports,
          blobUrls, textures, cachedBy>>

\* A handleFileSelect chain: where it stands, the entry reads still pending,
\* the non-directory entries of the archive (known once it is opened) and the
\* data store as it was when the file was selected.
IdleLoad == [pc |-> "idle", pending |-> {}, entries |-> {}, before |-> <<>>]
\* How the svgToTexture promise of a side settled: by which event, and whether
\* it was fulfilled with a texture.  "none": svgToTexture has not settled (or
\* was not called) for that side.
Settled(event, fulfilled) == [event |-> event, fulfilled |-> fulfilled]
NotSettled == Settled("none", FALSE)

IdlePass ==
    [pc |-> "idle", layers |-> <<>>, options |-> RenderOptions("#000000"),
     stackup |-> NullStackup, promise |-> "none",
     settled |-> [s \in Sides |-> NotSettled]]

Init ==
    /\ loadedLayers = <<>>
    /\ loads = [f \in Files |-> IdleLoad]
    /\ activeColor = "#1E8E3E"
    /\ passes = [p \in Passes |-> IdlePass]
    /\ nextPass = 0
    /\ pcbGroup = <<>>
    /\ camera = 0
    /\ currentStackup = NullStackup
    /\ thumbs = [s \in Sides |-> NoMarkup]
    /\ loadingMessage = "none"
    /\ alerts = {}
    /\ consoleLog = {}
    /\ exports = <<>>
    /\ blobUrls = {}
    /\ textures = {}
    /\ cachedBy = 0

\* --------------------------------------------------------- scene objects
Board(p, scale) == [kind |-> "board", pass |-> p, scale |-> scale, tex |-> NoTexture]
Overlay(side, p, tex) == [kind |-> side, pass |-> p, scale |-> UnitScale, tex |-> tex]

\* Mutant of ClearGroup: the children are kept.
ClearGroupKeeps(group) == group

\* pcbGroup.clear(): the group without its children.
ClearGroup(group) == <<>>

\* pcbGroup.add(object): the new object becomes the last child.
AddToGroup(group, object) == Append(group, object)

Children(kind) == {i \in 1..Len(pcbGroup) : pcbGroup[i].kind = kind}
InGroup(kind, p) == \E i \in 1..Len(pcbGroup) : pcbGroup[i].kind = kind /\ pcbGroup[i].pass = p

\* -------------------------------------------------------------- blob URLs
\* A blob URL: who created it (svgToTexture of pass n, a download link of
\* pass n, or PNG export job n), for which side, and how often it was revoked.
BlobUrl(by, n, side) == [by |-> by, pass |-> n, side |-> side, revoked |-> 0]

\* URL.createObjectURL(blob).
CreateObjectURL(urls, url) == urls \cup {url}

\* URL.revokeObjectURL(url).
RevokeObjectURL(urls, by, n, side) ==
    {IF u.by = by /\ u.pass = n /\ u.side = side
     THEN [u EXCEPT !.revoked = @ + 1] ELSE u : u \in urls}

\* Mutant of SvgToTextureRevoke: the URL is revoked only where a texture was
\* made or the decode failed, not where onload rejects the viewBox.
SvgToTextureRevokeNotOnReject(urls, p, side, event, tex) ==
    CASE event = "onload" /\ tex = NoTexture -> urls
      [] event = "onload" /\ tex # NoTexture -> RevokeObjectURL(urls, "svgToTexture", p, side)
      [] event = "onerror"                   -> RevokeObjectURL(urls, "svgToTexture", p, side)
      [] OTHER                               -> urls

\* The revocations of svgToTexture when its promise settles: in img.onload
\* before rejecting a viewBox of non-positive size, in img.onload after the
\* texture is made, in img.onerror.  A promise rejected by the executor has
\* created no URL.
SvgToTextureRevoke(urls, p, side, event, tex) ==
    CASE event = "onload" /\ tex = NoTexture -> RevokeObjectURL(urls, "svgToTexture", p, side)
      [] event = "onload" /\ tex # NoTexture -> RevokeObjectURL(urls, "svgToTexture", p, side)
      [] event = "onerror"                   -> RevokeObjectURL(urls, "svgToTexture", p, side)
      [] OTHER                               -> urls

\* new THREE.CanvasTexture(canvas) in img.onload of pass p for a side.
CanvasTexture(p, side, tex) == [pass |-> p, side |-> side, size |-> tex]

\* ------------------------------------------------------------ handleError
\* The error values handed to handleError: archive f cannot be opened, an
\* entry of archive f cannot be read, the compositor call of pass p rejects.
ArchiveError(f) == [src |-> "archive", file |-> f, pass |-> 0]
EntryError(f) == [src |-> "entry", file |-> f, pass |-> 0]
CompositorError(p) == [src |-> "compositor", file |-> "", pass |-> p]

\* Mutant of HandleError: the error is logged, no alert is shown.
HandleErrorLogsOnly(error) ==
    /\ consoleLog' = consoleLog \cup {[msg |-> "An error occurred:", by |-> error]}
    /\ alerts' = alerts
    /\ loadingMessage' = "none"

\* handleError(error): log, alert, hide the loading message.
HandleError(error) ==
    /\ consoleLog' = consoleLog \cup {[msg |-> "An error occurred:", by |-> error]}
    /\ alerts' = alerts \cup
         {[msg |-> "An error occurred processing the Gerber files.", by |-> error]}
    /\ loadingMessage' = "none"

\* ---------------------------------------------------------- renderAllViews
\* renderAllViews(layers) up to its pcbStackup call: nothing for an empty
\* list; else show the loading message, deep-copy the layers, read the active
\* colours and call the compositor, whose promise is then pending.
RenderAllViews(layers, soldermaskColor) ==
    IF Len(layers) = 0
    THEN UNCHANGED <<passes, nextPass, loadingMessage>>
    ELSE /\ nextPass < MaxPasses
         /\ nextPass' = nextPass + 1
         /\ loadingMessage' = "block"
         /\ passes' = [passes EXCEPT ![nextPass + 1] =
                          [pc |-> "compositor", layers |-> layers,
                           options |-> RenderOptions(soldermaskColor),
                           stackup |-> NullStackup, promise |-> "none",
                           settled |-> [s \in Sides |-> NotSettled]]]

\* -------------------------------------------------------- handleOptionChange
\* A click on a soldermask button: make it the active one and re-render when
\* layer data is loaded.  (A click outside a button returns at once.)
HandleOptionChange(color) ==
    /\ activeColor' = color
    /\ IF Len(loadedLayers) > 0
       THEN RenderAllViews(loadedLayers, color)
       ELSE UNCHANGED <<passes, nextPass, loadingMessage>>
    /\ UNCHANGED <<loadedLayers, loads, pcbGroup, camera, currentStackup, thumbs,
                   alerts, consoleLog, exports,
                   blobUrls, textures, cachedBy>>

\* ---------------------------------------------------------- handleFileSelect
\* The change event with a file: show the loading message and open the
\* archive.  (With no file chosen the handler returns at once.)
HandleFileSelect(f) ==
    /\ loads[f].pc = "idle"
    /\ loads' = [loads EXCEPT ![f].pc = "opening", ![f].before = loadedLayers]
    /\ loadingMessage' = "block"
    /\ UNCHANGED <<loadedLayers, activeColor, passes, nextPass, pcbGroup, camera,
                   currentStackup, thumbs, alerts, consoleLog, exports,
                   blobUrls, textures, cachedBy>>

\* JSZip.loadAsync resolves: the data store is emptied and one read is started
\* per non-directory entry.  With no such entry Promise.all([]) is fulfilled
\* and renderAllViews(loadedLayers) returns on the empty list.
LoadAsyncResolve(f, entries) ==
    /\ loads[f].pc = "opening"
    /\ loadedLayers' = <<>>
    /\ loads' = [loads EXCEPT ![f].entries = entries,
                               ![f].pending = entries,
                               ![f].pc = IF entries = {} THEN "settled" ELSE "reading"]
    /\ IF entries = {}
       THEN RenderAllViews(loadedLayers', activeColor)
       ELSE UNCHANGED <<passes, nextPass, loadingMessage>>
    /\ UNCHANGED <<activeColor, pcbGroup, camera, currentStackup, thumbs,
                   alerts, consoleLog, exports,
                   blobUrls, textures, cachedBy>>

\* JSZip.loadAsync rejects: .catch(handleError).
LoadAsyncReject(f) ==
    /\ loads[f].pc = "opening"
    /\ loads' = [loads EXCEPT ![f].pc = "failed"]
    /\ HandleError(ArchiveError(f))
    /\ UNCHANGED <<loadedLayers, activeColor, passes, nextPass, pcbGroup, camera,
                   currentStackup, thumbs, exports,
                   blobUrls, textures, cachedBy>>

\* zipEntry.async('string') resolves for entry e: its layer is pushed to the
\* data store.  When it was the last read of a chain that has not failed,
\* Promise.all is fulfilled and renderAllViews(loadedLayers) runs.  The reads
\* of a chain that has failed still push their layers.
EntryRead(f, e) ==
    /\ loads[f].pc \in {"reading", "failed"}
    /\ e \in loads[f].pending
    /\ loadedLayers' = Append(loadedLayers, [filename |-> e, gerber |-> f])
    /\ LET last == loads[f].pending = {e} /\ loads[f].pc = "reading"
       IN  /\ loads' = [loads EXCEPT ![f].pending = @ \ {e},
                                     ![f].pc = IF last THEN "settled" ELSE @]
           /\ IF last
              THEN RenderAllViews(loadedLayers', activeColor)
              ELSE UNCHANGED <<passes, nextPass, loadingMessage>>
    /\ UNCHANGED <<activeColor, pcbGroup, camera, currentStackup, thumbs,
                   alerts, consoleLog, exports,
                   blobUrls, textures, cachedBy>>

\* zipEntry.async('string') rejects for entry e: Promise.all rejects on the
\* first such failure and the chain ends in handleError; a later failure of
\* the same chain is ignored.
EntryFail(f, e) ==
    /\ loads[f].pc \in {"reading", "failed"}
    /\ e \in loads[f].pending
    /\ loads' = [loads EXCEPT ![f].pending = @ \ {e}, ![f].pc = "failed"]
    /\ IF loads[f].pc = "reading"
       THEN HandleError(EntryError(f))
       ELSE UNCHANGED <<alerts, consoleLog, loadingMessage>>
    /\ UNCHANGED <<loadedLayers, activeColor, passes, nextPass, pcbGroup, camera,
                   currentStackup, thumbs, exports,
                   blobUrls, textures, cachedBy>>

\* -------------------------------------------------------------- update3DView
\* Where update3DView stands after running from some point to its next await
\* or to its end: the new group, the position of the pass, the state of the
\* awaited svgToTexture promise, the lines logged, whether the camera was framed.
Outcome(pc, group, promise, log, framed) ==
    [pc |-> pc, group |-> group, promise |-> promise, log |-> log, framed |-> framed]

HasArtwork(doc) == ~doc.isNull /\ doc.svg # NoMarkup

\* Mutant of BottomStage: without bottom artwork update3DView returns before
\* the camera framing.
BottomStageReturns(stackup, group, log) ==
    IF HasArtwork(stackup.bottom)
    THEN Outcome("awaitBottom", group, SvgToTextureCall(stackup.bottom), log, FALSE)
    ELSE Outcome("returned", group, "none", log, FALSE)

\* From the bottom-overlay check on: await the bottom texture, or frame the
\* camera and finish.
BottomStage(stackup, group, log) ==
    IF HasArtwork(stackup.bottom)
    THEN Outcome("awaitBottom", group, SvgToTextureCall(stackup.bottom), log, FALSE)
    ELSE Outcome("done", group, "none", log, TRUE)

\* From the top-overlay check on.
TopStage(stackup, group, log) ==
    IF HasArtwork(stackup.top)
    THEN Outcome("awaitTop", group, SvgToTextureCall(stackup.top), log, FALSE)
    ELSE BottomStage(stackup, group, log)

\* update3DView(stackup) of pass p from its entry to its first await or return.
Update3DViewEnter(p, stackup, group) ==
    LET cleared == ClearGroup(group)
        Return(line) == Outcome("returned", cleared, "none", {line}, FALSE)
    IN  IF stackup.isNull \/ stackup.layers.isNull
        THEN Return("Stackup or layers not found")
        ELSE LET outlineLayer == FindOutline(stackup.layers.items)
             IN  IF outlineLayer.isNull
                 THEN Return("No outline layer found in stackup")
                 ELSE LET outline == ResolveOutline(outlineLayer)
                      IN  IF ~outline.usable
                          THEN Return("Outline layer found, but it contains no usable SVG data.")
                          ELSE IF GetShapesFromSVG(outline.svg) = <<>>
                          THEN Return("Could not extract any shapes from the outline SVG.")
                          ELSE TopStage(stackup,
                                        AddToGroup(cleared, Board(p, outline.scale)), {})

\* Mutant of Update3DViewResume: a pass whose solid is no longer in the group
\* (a later pass has cleared it) drops its texture instead of adding it.
Update3DViewResumeDropsStale(p, pc, stackup, group, tex) ==
    LET side == IF pc = "awaitTop" THEN "top" ELSE "bottom"
        current == \E i \in 1..Len(group) : group[i].kind = "board" /\ group[i].pass = p
        group1 == IF tex # <<>> /\ current THEN Append(group, Overlay(side, p, tex))
                  ELSE group
        log == IF tex # <<>> THEN {}
               ELSE {IF side = "top" THEN "Failed to create top texture:"
                     ELSE "Failed to create bottom texture:"}
    IN  IF pc = "awaitTop"
        THEN BottomStage(stackup, group1, log)
        ELSE Outcome("done", group1, "none", log, TRUE)

\* Mutant of Update3DViewResume: a rejected texture promise is not caught, so
\* update3DView ends at the failed side.
Update3DViewResumeUncaught(p, pc, stackup, group, tex) ==
    LET side == IF pc = "awaitTop" THEN "top" ELSE "bottom"
    IN  IF tex = NoTexture
        THEN Outcome("returned", group, "none", {"Uncaught (in promise)"}, FALSE)
        ELSE IF pc = "awaitTop"
        THEN BottomStage(stackup, AddToGroup(group, Overlay(side, p, tex)), {})
        ELSE Outcome("done", AddToGroup(group, Overlay(side, p, tex)), "none", {}, TRUE)

\* update3DView of pass p resumed after an await: tex is the texture the
\* awaited promise was fulfilled with, or NoTexture when it was rejected (the
\* catch block logs and the side is skipped).
Update3DViewResume(p, pc, stackup, group, tex) ==
    LET side == IF pc = "awaitTop" THEN "top" ELSE "bottom"
        group1 == IF tex # NoTexture THEN AddToGroup(group, Overlay(side, p, tex))
                  ELSE group
        log == IF tex # NoTexture THEN {}
               ELSE {IF side = "top" THEN "Failed to create top texture:"
                     ELSE "Failed to create bottom texture:"}
    IN  IF pc = "awaitTop"
        THEN BottomStage(stackup, group1, log)
        ELSE Outcome("done", group1, "none", log, TRUE)

\* Mutant of Apply: the camera is framed by every outcome of update3DView.
ApplyAlwaysFrames(p, stackup, side, settled, out) ==
    /\ pcbGroup' = out.group
    /\ passes' = [passes EXCEPT ![p].pc = out.pc, ![p].stackup = stackup,
                                ![p].promise = out.promise,
                                ![p].settled[side] = settled]
    /\ consoleLog' = consoleLog \cup {[msg |-> l, by |-> CompositorError(p)] : l \in out.log}
    /\ camera' = p

\* The effect of an update3DView outcome on the scene and on pass p.
Apply(p, stackup, side, settled, out) ==
    /\ pcbGroup' = out.group
    /\ passes' = [passes EXCEPT ![p].pc = out.pc, ![p].stackup = stackup,
                                ![p].promise = out.promise,
                                ![p].settled[side] = settled]
    /\ consoleLog' = consoleLog \cup {[msg |-> l, by |-> CompositorError(p)] : l \in out.log}
    /\ camera' = IF out.framed THEN p ELSE camera

\* The blob URL svgToTexture creates when an update3DView outcome has started
\* an image decode.
StartDecode(urls, p, out) ==
    IF out.promise = "pending"
    THEN CreateObjectURL(urls, BlobUrl("svgToTexture", p,
                                       IF out.pc = "awaitTop" THEN "top" ELSE "bottom"))
    ELSE urls

\* The 2D thumbnail of a side: its markup, or the "No ... view generated" note.
Thumb(stackup, side) ==
    LET doc == IF stackup.isNull THEN NullDoc
               ELSE IF side = "top" THEN stackup.top ELSE stackup.bottom
    IN  IF HasArtwork(doc) THEN doc.svg ELSE NoMarkup

\* The download links of pass p: one blob URL per side that has markup.
DownloadUrls(urls, p, stackup) ==
    urls \cup {BlobUrl("download", p, s) : s \in {t \in Sides : Thumb(stackup, t) # NoMarkup}}

\* pcbStackup of pass p resolves with stackup: cache it, run update3DView to
\* its first await, fill both thumbnails and download links, hide the loading
\* message.
PcbStackupResolve(p, stackup) ==
    /\ passes[p].pc = "compositor"
    /\ currentStackup' = stackup
    /\ cachedBy' = p
    /\ LET out == Update3DViewEnter(p, stackup, pcbGroup)
       IN  /\ Apply(p, stackup, "top", NotSettled, out)
           /\ blobUrls' = DownloadUrls(StartDecode(blobUrls, p, out), p, stackup)
    /\ thumbs' = [s \in Sides |-> Thumb(stackup, s)]
    /\ loadingMessage' = "none"
    /\ UNCHANGED <<loadedLayers, loads, activeColor, nextPass, alerts, exports, textures>>

\* pcbStackup of pass p rejects: .catch(handleError); update3DView never runs.
PcbStackupReject(p) ==
    /\ passes[p].pc = "compositor"
    /\ passes' = [passes EXCEPT ![p].pc = "failed"]
    /\ HandleError(CompositorError(p))
    /\ UNCHANGED <<loadedLayers, loads, activeColor, nextPass, pcbGroup, camera,
                   currentStackup, thumbs, exports,
                   blobUrls, textures, cachedBy>>

AwaitedDoc(p) ==
    IF passes[p].pc = "awaitTop" THEN passes[p].stackup.top ELSE passes[p].stackup.bottom

AwaitedSide(p) == IF passes[p].pc = "awaitTop" THEN "top" ELSE "bottom"

\* The awaited svgToTexture promise of pass p settles by the given event with
\* tex, and update3DView resumes up to its next await or its end.
Resume(p, event, tex) ==
    LET side == AwaitedSide(p)
        out == Update3DViewResume(p, passes[p].pc, passes[p].stackup, pcbGroup, tex)
    IN  /\ Apply(p, passes[p].stackup, side, Settled(event, tex # NoTexture), out)
        /\ blobUrls' = StartDecode(SvgToTextureRevoke(blobUrls, p, side, event, tex), p, out)
        /\ textures' = IF tex # NoTexture
                       THEN textures \cup {CanvasTexture(p, side, tex)}
                       ELSE textures
        /\ UNCHANGED <<loadedLayers, loads, activeColor, nextPass, currentStackup, thumbs,
                       loadingMessage, alerts, exports, cachedBy>>

\* The image of the awaited side of pass p has decoded: img.onload settles the
\* promise and update3DView resumes.
ImgOnload(p) ==
    /\ passes[p].pc \in {"awaitTop", "awaitBottom"}
    /\ passes[p].promise = "pending"
    /\ Resume(p, "onload", SvgToTextureOnload(AwaitedDoc(p)))

\* The image of the awaited side of pass p failed to decode: img.onerror.
ImgOnerror(p) ==
    /\ passes[p].pc \in {"awaitTop", "awaitBottom"}
    /\ passes[p].promise = "pending"
    /\ Resume(p, "onerror", SvgToTextureOnerror(AwaitedDoc(p)))

\* The awaited promise of pass p was rejected by the executor itself:
\* update3DView resumes in its catch block on a later microtask.
AwaitRejected(p) ==
    /\ passes[p].pc \in {"awaitTop", "awaitBottom"}
    /\ passes[p].promise = "rejected"
    /\ Resume(p, "executor", NoTexture)

\* ------------------------------------------------------------ handlePngExport
\* parseInt(dpiInput.value, 10) for the texts the DPI field is given here.
NaN == [isNaN |-> TRUE, n |-> 0]
Num(n) == [isNaN |-> FALSE, n |-> n]
ParseInt(text) ==
    CASE text = "254" -> Num(254)
      [] text = "300" -> Num(300)
      [] text = "0"   -> Num(0)
      [] OTHER        -> NaN

DpiTexts == {"254", "300", "0", "abc"}

\* The canvas size handlePngExport computes for a view at a DPI: the declared
\* width and height are divided by MM_PER_INCH whatever the units are.
\* width / 25.4 * dpi is the fraction 10 * width * dpi / 254.
PngCanvas(viewData, dpi) ==
    <<MathRound(10 * viewData.width * dpi, MM_PER_INCH_X10),
      MathRound(10 * viewData.height * dpi, MM_PER_INCH_X10)>>

PngAlert(msg, side) == [msg |-> msg, by |-> [src |-> "png", file |-> side, pass |-> 0]]

\* handlePngExport(side) with the given text in the side's DPI field, up to the
\* start of the image decode.
HandlePngExport(side, dpiText) ==
    LET viewData == IF side = "top" THEN currentStackup.top ELSE currentStackup.bottom
        dpi == ParseInt(dpiText)
        Refuse(msg) == /\ alerts' = alerts \cup {PngAlert(msg, side)}
                       /\ UNCHANGED <<exports, consoleLog, blobUrls>>
    IN  /\ Len(exports) < MaxExports
        /\ IF currentStackup.isNull
           THEN Refuse("No stackup data is available. Please load a file first.")
           ELSE IF viewData.isNull \/ viewData.svg = NoMarkup
           THEN Refuse("No view is available to export.")
           ELSE IF dpi.isNaN \/ dpi.n <= 0
           THEN Refuse("Please enter a valid, positive DPI value.")
           ELSE /\ exports' = Append(exports,
                       [side |-> side, dpi |-> dpi.n, view |-> viewData,
                        canvas |-> PngCanvas(viewData, dpi.n), state |-> "decoding"])
                /\ consoleLog' = IF viewData.units # "mm"
                                 THEN consoleLog \cup
                                      {[msg |-> "PNG export may be inaccurate. Assuming mm.",
                                        by |-> [src |-> "png", file |-> side, pass |-> 0]]}
                                 ELSE consoleLog
                /\ blobUrls' = CreateObjectURL(blobUrls,
                                                BlobUrl("png", Len(exports) + 1, side))
                /\ UNCHANGED alerts
        /\ UNCHANGED <<loadedLayers, loads, activeColor, passes, nextPass, pcbGroup,
                       camera, currentStackup, thumbs, loadingMessage, textures, cachedBy>>

\* img.onload of export job i: draw, encode and trigger the download.
PngOnload(i) ==
    /\ i \in 1..Len(exports)
    /\ exports[i].state = "decoding"
    /\ exports' = [exports EXCEPT ![i].state = "downloaded"]
    /\ blobUrls' = RevokeObjectURL(blobUrls, "png", i, exports[i].side)
    /\ UNCHANGED <<loadedLayers, loads, activeColor, passes, nextPass, pcbGroup, camera,
                   currentStackup, thumbs, loadingMessage, alerts, consoleLog,
                   textures, cachedBy>>

\* img.onerror of export job i: log and alert.
PngOnerror(i) ==
    /\ i \in 1..Len(exports)
    /\ exports[i].state = "decoding"
    /\ exports' = [exports EXCEPT ![i].state = "failed"]
    /\ alerts' = alerts \cup
         {PngAlert("An error occurred while preparing the PNG file.", exports[i].side)}
    /\ consoleLog' = consoleLog \cup
         {[msg |-> "Image loading for PNG conversion failed:",
           by |-> [src |-> "png", file |-> exports[i].side, pass |-> 0]]}
    /\ blobUrls' = RevokeObjectURL(blobUrls, "png", i, exports[i].side)
    /\ UNCHANGED <<loadedLayers, loads, activeColor, passes, nextPass, pcbGroup, camera,
                   currentStackup, thumbs, loadingMessage, textures, cachedBy>>

\* ------------------------------------------------------ compositor results
Copper == Layer("copper", "closed", NullConverter)
OutlineMarkup(svg) == Layer("outline", svg, NullConverter)
OutlineRaw(layer, viewBox, width) ==
    Layer("outline", NoMarkup, Converter(layer, viewBox, width, width, "mm"))

WideBox == <<0, 0, 2, 1>>
FlatBox == <<0, 0, 0, 1>>
ValidDoc == SideDoc("closed", WideBox, 2, 1, "mm")
FlatDoc == SideDoc("closed", FlatBox, 0, 1, "mm")
NoBoxDoc == SideDoc("closed", NoViewBox, 2, 1, "mm")
SmallDocs == {NullDoc, ValidDoc, FlatDoc, NoBoxDoc}

\* Layer lists from which update3DView builds no solid: no list, no outline
\* layer, an outline with no usable representation, an outline without shapes.
DefectLayerLists ==
    {NullLayerList,
     LayerList(<<Copper>>),
     LayerList(<<Copper, Layer("outline", NoMarkup, NullConverter)>>),
     LayerList(<<Copper, OutlineRaw("closed", NoViewBox, 4)>>),
     LayerList(<<Copper, OutlineRaw(NoFragments, WideBox, 4)>>),
     LayerList(<<Copper, OutlineMarkup("malformed")>>),
     LayerList(<<Copper, OutlineRaw("empty", WideBox, 4)>>)}

\* Spec: the boards without solid, and a board with a ready-markup outline
\* whose sides are absent, valid, without viewBox, or of zero viewBox width.
Stackups ==
    {NullStackup} \cup
    {Stackup(ll, ValidDoc, ValidDoc) : ll \in DefectLayerLists} \cup
    {Stackup(LayerList(<<Copper, OutlineMarkup("closed")>>), t, b) :
        t \in SmallDocs, b \in {NullDoc, ValidDoc}}

\* SpecSingle: every outline defect and representation with two valid sides,
\* and a ready-markup outline with every side document on one side and each of
\* SmallDocs on the other.
ViewBoxes ==
    {<<x0, y0, x1, y1>> : x0 \in 0..1, y0 \in 0..1, x1 \in 0..MaxCoord, y1 \in 0..MaxCoord}

RichDocs ==
    {NullDoc, SideDoc(NoMarkup, WideBox, 2, 1, "mm"), SideDoc("closed", NoViewBox, 2, 1, "mm")}
    \cup {SideDoc("closed", vb, vb[3] - vb[1], vb[4] - vb[2], "mm") : vb \in ViewBoxes}

OutlineLayers ==
    {OutlineMarkup(m) : m \in Markups}
    \cup {Layer("outline", NoMarkup, NullConverter),
          Layer("outline", "closed", Converter("closed", WideBox, 4, 2, "mm"))}
    \cup {OutlineRaw(l, vb, w) : l \in {NoFragments, "closed", "empty", "malformed"},
                                 vb \in {NoViewBox, WideBox, <<2, 0, 2, 1>>},
                                 w \in {0, 4}}

RichLayerLists ==
    {NullLayerList, LayerList(<<>>), LayerList(<<Copper>>),
     LayerList(<<OutlineMarkup("empty"), OutlineMarkup("closed")>>)}
    \cup {LayerList(<<Copper, o>>) : o \in OutlineLayers}

RichStackups ==
    {NullStackup}
    \cup {Stackup(ll, ValidDoc, ValidDoc) : ll \in RichLayerLists}
    \cup {Stackup(LayerList(<<Copper, OutlineMarkup("closed")>>), t, b) :
             t \in RichDocs, b \in SmallDocs}
    \cup {Stackup(LayerList(<<Copper, OutlineMarkup("closed")>>), t, b) :
             t \in SmallDocs, b \in RichDocs}

\* SpecPng: side documents of several declared sizes, in mm and in inches.
PngSizes == {10, 25, 127}
PngDocs ==
    {SideDoc("closed", WideBox, w, h, u) : w \in PngSizes, h \in PngSizes, u \in {"mm", "in"}}
PngStackups ==
    {NullStackup}
    \cup {Stackup(LayerList(<<Copper>>), t, b) :
             t \in PngDocs \cup {NullDoc},
             b \in {NullDoc, SideDoc(NoMarkup, WideBox, 2, 1, "mm"), ValidDoc}}

\* -------------------------------------------------------------- specification
\* Spec: overlapping render passes on one archive.
Next ==
    \/ \E f \in {"a.zip"} : HandleFileSelect(f)
    \/ \E f \in {"a.zip"} : \E entries \in SUBSET {"outline.gbr"} : LoadAsyncResolve(f, entries)
    \/ \E f \in {"a.zip"} : LoadAsyncReject(f)
    \/ \E f \in {"a.zip"} : \E e \in EntryNames : EntryRead(f, e)
    \/ \E f \in {"a.zip"} : \E e \in EntryNames : EntryFail(f, e)
    \/ \E c \in {"#1E8E3E"} : HandleOptionChange(c)
    \/ \E p \in Passes : \E st \in Stackups : PcbStackupResolve(p, st)
    \/ \E p \in Passes : PcbStackupReject(p)
    \/ \E p \in Passes : ImgOnload(p)
    \/ \E p \in Passes : ImgOnerror(p)
    \/ \E p \in Passes : AwaitRejected(p)

Spec == Init /\ [][Next]_vars

\* SpecLive: overlapping render passes of one archive, where every started
\* image decode eventually fires onload or onerror, and a continuation that
\* is ready to run (the catch block of a promise the executor rejected)
\* eventually runs.  Nothing is assumed of the user or of the compositor.
LiveStackups ==
    {Stackup(LayerList(<<Copper>>), ValidDoc, ValidDoc)} \cup
    {Stackup(LayerList(<<Copper, OutlineMarkup("closed")>>), t, b) :
        t \in {ValidDoc, NoBoxDoc}, b \in {NullDoc, ValidDoc}}

NextLive ==
    \/ \E f \in {"a.zip"} : HandleFileSelect(f)
    \/ \E f \in {"a.zip"} : LoadAsyncResolve(f, {"outline.gbr"})
    \/ \E f \in {"a.zip"} : \E e \in EntryNames : EntryRead(f, e)
    \/ \E c \in {"#1E8E3E"} : HandleOptionChange(c)
    \/ \E p \in Passes : \E st \in LiveStackups : PcbStackupResolve(p, st)
    \/ \E p \in Passes : PcbStackupReject(p)
    \/ \E p \in Passes : ImgOnload(p)
    \/ \E p \in Passes : ImgOnerror(p)
    \/ \E p \in Passes : AwaitRejected(p)

Fairness ==
    \A p \in Passes :
       /\ WF_vars(ImgOnload(p) \/ ImgOnerror(p))
       /\ WF_vars(AwaitRejected(p))

SpecLive == Init /\ [][NextLive]_vars /\ Fairness

\* SpecLoad: two archives selected in any order and at any distance, each
\* with any set of entries, any read of which may fail, with clicks on a
\* soldermask button in between; the compositor gives a board without
\* artwork or rejects.
LoadStackups == {Stackup(LayerList(<<Copper, OutlineMarkup("closed")>>), NullDoc, NullDoc)}

NextLoad ==
    \/ \E f \in Files : HandleFileSelect(f)
    \/ \E f \in Files : \E entries \in SUBSET EntryNames : LoadAsyncResolve(f, entries)
    \/ \E f \in Files : LoadAsyncReject(f)
    \/ \E f \in Files : \E e \in EntryNames : EntryRead(f, e)
    \/ \E f \in Files : \E e \in EntryNames : EntryFail(f, e)
    \/ \E c \in {"#1E8E3E"} : HandleOptionChange(c)
    \/ \E p \in Passes : \E st \in LoadStackups : PcbStackupResolve(p, st)
    \/ \E p \in Passes : PcbStackupReject(p)

SpecLoad == Init /\ [][NextLoad]_vars

\* SpecSingle: one render pass (one archive, colours chosen before it is
\* loaded) over every compositor result of RichStackups.
NextSingle ==
    \/ \E f \in {"a.zip"} : HandleFileSelect(f)
    \/ \E f \in {"a.zip"} : LoadAsyncResolve(f, {"outline.gbr"})
    \/ \E f \in {"a.zip"} : \E e \in EntryNames : EntryRead(f, e)
    \/ \E c \in Colors : Len(loadedLayers) = 0 /\ HandleOptionChange(c)
    \/ \E p \in Passes : \E st \in RichStackups : PcbStackupResolve(p, st)
    \/ \E p \in Passes : PcbStackupReject(p)
    \/ \E p \in Passes : ImgOnload(p)
    \/ \E p \in Passes : ImgOnerror(p)
    \/ \E p \in Passes : AwaitRejected(p)

SpecSingle == Init /\ [][NextSingle]_vars

\* SpecPng: PNG exports before and after one render pass.
NextPng ==
    \/ \E f \in {"a.zip"} : HandleFileSelect(f)
    \/ \E f \in {"a.zip"} : LoadAsyncResolve(f, {"outline.gbr"})
    \/ \E f \in {"a.zip"} : \E e \in EntryNames : EntryRead(f, e)
    \/ \E p \in Passes : \E st \in PngStackups : PcbStackupResolve(p, st)
    \/ \E side \in Sides : \E text \in DpiTexts : HandlePngExport(side, text)
    \/ \E i \in 1..MaxExports : PngOnload(i)
    \/ \E i \in 1..MaxExports : PngOnerror(i)

SpecPng == Init /\ [][NextPng]_vars


\* ===========================================================================
\* Properties
\* ===========================================================================
Started(p) == passes[p].pc # "idle"
Suspended(p) == passes[p].pc \in {"awaitTop", "awaitBottom"}
\* The pass has left update3DView for good, or never entered it.
Finished(p) == passes[p].pc \in {"done", "returned", "failed"}
DocOf(p, side) == IF side = "top" THEN passes[p].stackup.top ELSE passes[p].stackup.bottom
AlertsBy(error) == {a \in alerts : a.by = error}

\* C1: in every reachable state pcbGroup holds at most one board solid, at
\* most one top overlay and at most one bottom overlay, and all its children
\* were installed by one and the same render pass (nothing of an earlier pass
\* stays once a later pass has installed content).
C1_OneBoardOneOverlayPerSide ==
    /\ \A kind \in {"board", "top", "bottom"} : Cardinality(Children(kind)) <= 1
    /\ \A i, j \in 1..Len(pcbGroup) : pcbGroup[i].pass = pcbGroup[j].pass

\* C2 (as stated): whenever a render pass ends in an error - a logged outline
\* defect, or a failure reported through handleError - no board solid of
\* another pass is in pcbGroup at that point.
C2_ErrorLeavesNoPreviousBoard ==
    [][\A p \in Passes :
          (~Finished(p) /\ passes'[p].pc \in {"returned", "failed"})
          => \A i \in 1..Len(pcbGroup') :
                pcbGroup'[i].kind = "board" => pcbGroup'[i].pass = p]_vars

\* C2 (amended): update3DView clears pcbGroup before any of its checks: the
\* step in which the compositor promise of pass p resolves leaves in the group
\* only what p itself installed, and leaves it empty when p returns on an
\* outline defect; the step in which the compositor rejects (handleError)
\* does not run update3DView and leaves the group as it was.
C2_Update3DViewClearsFirst ==
    [][\A p \in Passes :
          passes[p].pc = "compositor" =>
             /\ passes'[p].pc \in {"returned", "awaitTop", "awaitBottom", "done"}
                   => \A i \in 1..Len(pcbGroup') : pcbGroup'[i].pass = p
             /\ passes'[p].pc = "returned" => pcbGroup' = <<>>
             /\ passes'[p].pc = "failed" => pcbGroup' = pcbGroup]_vars

\* C2 witness: pass 1 installed its board and finished, then pass 2 returned
\* on an outline defect and the group is empty.
C2_Witness ==
    /\ passes[1].pc = "done"
    /\ passes[2].pc = "returned"
    /\ pcbGroup = <<>>

\* The outline of the stackup yields a solid: an outline layer exists, one of
\* its representations is present and at least one shape is extracted.
FirstOutline(stackup) ==
    LET idx == {i \in 1..Len(stackup.layers.items) : stackup.layers.items[i].type = "outline"}
    IN  stackup.layers.items[CHOOSE i \in idx : \A j \in idx : i <= j]

HasOutline(stackup) ==
    /\ ~stackup.isNull
    /\ ~stackup.layers.isNull
    /\ \E i \in 1..Len(stackup.layers.items) : stackup.layers.items[i].type = "outline"

OutlineMarkupOf(layer) ==
    IF layer.svg # NoMarkup THEN layer.svg
    ELSE IF ~layer.converter.isNull /\ layer.converter.layer # NoFragments
            /\ layer.converter.viewBox # NoViewBox
    THEN layer.converter.layer
    ELSE NoMarkup

YieldsSolid(stackup) ==
    /\ HasOutline(stackup)
    /\ OutlineMarkupOf(FirstOutline(stackup)) = "closed"

\* C3: a single render pass whose outline yields a solid always runs to its
\* end, whatever happens to its sides; at its end pcbGroup holds the solid,
\* the top overlay exactly when top artwork was present and its texture promise
\* was fulfilled, the bottom overlay likewise, nothing else, and no alert.
C3_SideFailureSkipsThatSideOnly ==
    \A p \in Passes :
       (Finished(p) /\ passes[p].pc # "failed" /\ YieldsSolid(passes[p].stackup)) =>
          /\ passes[p].pc = "done"
          /\ InGroup("board", p)
          /\ \A side \in Sides :
                /\ InGroup(side, p) <=>
                      (HasArtwork(DocOf(p, side)) /\ passes[p].settled[side].fulfilled)
                /\ HasArtwork(DocOf(p, side)) <=> passes[p].settled[side].event # "none"
          /\ Len(pcbGroup) = 1 + Cardinality({side \in Sides : InGroup(side, p)})
          /\ alerts = {}

\* C3 witness: the top image failed to decode, the bottom texture was made:
\* the group holds the solid and the bottom overlay only.
C3_Witness ==
    \E p \in Passes :
       /\ passes[p].pc = "done"
       /\ passes[p].settled["top"] = Settled("onerror", FALSE)
       /\ passes[p].settled["bottom"] = Settled("onload", TRUE)
       /\ InGroup("board", p) /\ InGroup("bottom", p) /\ ~InGroup("top", p)
       /\ alerts = {}

\* The stackup has no layers list, no outline layer, an outline with neither
\* markup nor a converter with layer and viewBox, or an outline of zero shapes.
C4_Defect(stackup) == ~YieldsSolid(stackup)

\* C4: when update3DView is given a stackup without layers list, without
\* outline layer, with an outline that has neither markup nor a converter with
\* layer and viewBox, or with an outline of zero shapes, that step leaves the
\* group empty, starts no texture generation, moves no camera, raises no alert
\* and logs a line; afterwards the pass does nothing more.
C4_OutlineDefectClearsAndLogs ==
    /\ [][\A p \in Passes :
            (passes[p].pc = "compositor" /\ passes'[p].pc # "compositor"
             /\ passes'[p].pc # "failed" /\ C4_Defect(passes'[p].stackup)) =>
               /\ pcbGroup' = <<>>
               /\ passes'[p].pc = "returned"
               /\ passes'[p].promise = "none"
               /\ camera' = camera
               /\ alerts' = alerts
               /\ consoleLog' # consoleLog]_vars
    /\ [](\A p \in Passes :
            passes[p].pc = "returned" =>
               /\ C4_Defect(passes[p].stackup)
               /\ \A side \in Sides : passes[p].settled[side] = NotSettled
               /\ \A i \in 1..Len(pcbGroup) : pcbGroup[i].pass # p
               /\ AlertsBy(CompositorError(p)) = {}
               /\ camera # p)

\* C4 witness: a board is shown, then a pass whose outline has a converter
\* without viewBox returns and the group is empty.
C4_Witness ==
    /\ passes[1].pc = "done"
    /\ passes[2].pc = "returned"
    /\ passes[2].stackup.layers =
          LayerList(<<Copper, OutlineRaw("closed", NoViewBox, 4)>>)
    /\ pcbGroup = <<>>
    /\ alerts = {}

\* The children one pass alone leaves in the group: its solid and one overlay
\* per fulfilled side texture.
SinglePassChildren(p) ==
    IF passes[p].pc = "done"
    THEN 1 + Cardinality({side \in Sides : passes[p].settled[side].fulfilled})
    ELSE 0

\* C5: when renderAllViews is invoked twice with identical layers and colour
\* options (and the compositor and the decodes answer alike), then once both
\* passes have settled pcbGroup has as many children as after a single pass.
C5_RerenderIdempotent ==
    (/\ nextPass = 2
     /\ passes[1].pc \in {"done", "returned"}
     /\ passes[2].pc \in {"done", "returned"}
     /\ passes[1].layers = passes[2].layers
     /\ passes[1].options = passes[2].options
     /\ passes[1].stackup = passes[2].stackup
     /\ passes[1].settled = passes[2].settled)
    => Len(pcbGroup) = SinglePassChildren(1)

\* The failures of external calls that have occurred: archives that could
\* not be read, compositor calls that rejected, images that failed to decode.
FailedLoads == {f \in Files : loads[f].pc = "failed"}
RejectedPasses == {p \in Passes : passes[p].pc = "failed"}
DecodeFailures ==
    {ps \in Passes \X Sides : passes[ps[1]].settled[ps[2]].event = "onerror"}

Installed(p) == \E i \in 1..Len(pcbGroup) : pcbGroup[i].pass = p

\* C6 (as stated): every external-call failure of a render pass, an image
\* that fails to decode included, is surfaced by the handleError alert and
\* aborts the pass; input-data defects raise no alert.
C6_EveryExternalFailureAlerts ==
    /\ \A f \in FailedLoads : \E a \in alerts : a.by.file = f
    /\ \A p \in RejectedPasses : AlertsBy(CompositorError(p)) # {}
    /\ \A ps \in DecodeFailures :
          /\ AlertsBy(CompositorError(ps[1])) # {}
          /\ passes[ps[1]].pc = "failed"
    /\ \A a \in alerts : a.by.src \in {"archive", "entry", "compositor"}

\* C6 (amended): an archive that cannot be read and a compositor call that
\* rejects are surfaced by the handleError alert, and the rejected pass runs
\* no update3DView (it installs nothing, frames no camera, settles no texture);
\* an image that fails to decode during a render pass is not surfaced: the
\* failure is logged, that side gets no overlay and the pass goes on; alerts
\* are raised by nothing but those archive and compositor failures.
C6_ExternalFailuresExceptDecodeAlert ==
    /\ \A f \in Files :
          f \in FailedLoads <=>
             (AlertsBy(ArchiveError(f)) # {} \/ AlertsBy(EntryError(f)) # {})
    /\ \A p \in Passes :
          /\ p \in RejectedPasses <=> AlertsBy(CompositorError(p)) # {}
          /\ p \in RejectedPasses =>
                /\ ~Installed(p)
                /\ camera # p
                /\ \A side \in Sides : passes[p].settled[side] = NotSettled
    /\ \A ps \in DecodeFailures :
          /\ passes[ps[1]].pc \in {"awaitBottom", "done"}
          /\ ~InGroup(ps[2], ps[1])
          /\ [msg |-> IF ps[2] = "top" THEN "Failed to create top texture:"
                      ELSE "Failed to create bottom texture:",
              by |-> CompositorError(ps[1])] \in consoleLog
    /\ \A a \in alerts : a.by.src \in {"archive", "entry", "compositor"}
    /\ Cardinality(alerts) = Cardinality(FailedLoads) + Cardinality(RejectedPasses)

\* C6 witness: the compositor call of one pass rejected and was alerted; in
\* another pass the top image failed to decode, which raised no alert, and the
\* pass went on to install the bottom overlay.
C6_Witness ==
    \E p, q \in Passes :
       /\ passes[p].pc = "failed"
       /\ Cardinality(alerts) = 1
       /\ passes[q].settled["top"].event = "onerror"
       /\ passes[q].pc = "done"
       /\ InGroup("bottom", q)

\* The overlays in the group whose side document has a viewBox of positive
\* width and height, with that width and height.
ViewBoxWidth(doc) == doc.viewBox[3] - doc.viewBox[1]
ViewBoxHeight(doc) == doc.viewBox[4] - doc.viewBox[2]
Overlays == {i \in 1..Len(pcbGroup) : pcbGroup[i].kind \in Sides}
DocOfChild(i) == DocOf(pcbGroup[i].pass, pcbGroup[i].kind)
Max(a, b) == IF a >= b THEN a ELSE b
Min(a, b) == IF a <= b THEN a ELSE b

C8_Unusable(doc) ==
    \/ doc.svg = NoMarkup
    \/ doc.viewBox = NoViewBox
    \/ ViewBoxWidth(doc) <= 0
    \/ ViewBoxHeight(doc) <= 0

\* C8: for a side document without markup, without viewBox or with a viewBox
\* of non-positive width or height the svgToTexture promise is never fulfilled:
\* the executor rejects it when markup or viewBox is missing, and whichever
\* image event arrives rejects it otherwise; no overlay of that side is added.
C8_UnusableSideIsRejected ==
    /\ \A doc \in RichDocs \ {NullDoc} :
          (doc.svg = NoMarkup \/ doc.viewBox = NoViewBox) => SvgToTextureCall(doc) = "rejected"
    /\ \A p \in Passes : \A side \in Sides :
          (Started(p) /\ passes[p].pc # "compositor" /\ ~DocOf(p, side).isNull
           /\ C8_Unusable(DocOf(p, side))) =>
             /\ ~passes[p].settled[side].fulfilled
             /\ ~InGroup(side, p)
             /\ (passes[p].pc = "done" /\ DocOf(p, side).svg # NoMarkup)
                   => passes[p].settled[side].event \in {"executor", "onload", "onerror"}
             /\ passes[p].settled[side].event = "executor" <=>
                   (passes[p].settled[side].event # "none" /\ DocOf(p, side).viewBox = NoViewBox)

\* C8 witness: the image of a side with a viewBox of zero height decoded
\* (onload), the promise was rejected and the pass finished without overlay.
C8_Witness ==
    \E p \in Passes :
       /\ passes[p].pc = "done"
       /\ DocOf(p, "top").viewBox # NoViewBox
       /\ ViewBoxWidth(DocOf(p, "top")) > 0
       /\ ViewBoxHeight(DocOf(p, "top")) = 0
       /\ passes[p].settled["top"] = Settled("onload", FALSE)
       /\ ~InGroup("top", p)

\* The pixels of a declared length at a DPI: the length in inches (as it is
\* for units "in", divided by 25.4 for "mm") times the DPI, rounded.
C9_Pixels(length, units, dpi) ==
    IF units = "in" THEN length * dpi
    ELSE (2 * 10 * length * dpi + 254) \div (2 * 254)

\* C9: the canvas of every PNG export has the side's declared width and
\* height, converted to inches according to its units, times the DPI, rounded.
C9_PngSizeFollowsUnits ==
    \A i \in 1..Len(exports) :
       exports[i].canvas =
          <<C9_Pixels(exports[i].view.width, exports[i].view.units, exports[i].dpi),
            C9_Pixels(exports[i].view.height, exports[i].view.units, exports[i].dpi)>>

\* C10: when the texture promise of a suspended pass is fulfilled, the pass
\* appends its overlay to whatever pcbGroup holds at that time, also when a
\* later pass has cleared the group and installed its own content meanwhile.
C10_StaleOverlayIsAdded ==
    [][\A p \in Passes : \A side \in Sides :
          (passes[p].settled[side] = NotSettled /\ passes'[p].settled[side].fulfilled) =>
             /\ Len(pcbGroup') = Len(pcbGroup) + 1
             /\ SubSeq(pcbGroup', 1, Len(pcbGroup)) = pcbGroup
             /\ pcbGroup'[Len(pcbGroup')].kind = side
             /\ pcbGroup'[Len(pcbGroup')].pass = p]_vars

\* C10 witness: the group holds the solid pass 2 installed while pass 1 was
\* awaiting its decode, followed by the overlay of pass 1.
C10_Witness ==
    \E i, j \in 1..Len(pcbGroup) :
       /\ i < j
       /\ pcbGroup[i].kind = "board" /\ pcbGroup[i].pass = 2
       /\ pcbGroup[j].kind \in Sides /\ pcbGroup[j].pass = 1
       /\ ~InGroup("board", 1)

\* C11: camera.position and controls.target are set by update3DView only in
\* the step in which a pass that installed a board solid reaches its end,
\* and then every side of that pass that has artwork has had its texture
\* promise settled; a pass that returns early (no stackup or layers, no
\* outline layer, unusable outline, no shapes) installs no solid and leaves
\* the camera as it was, and so does a compositor rejection.
C11_CameraFramedOnlyAfterBothSides ==
    [][\A p \in Passes :
          /\ (passes[p].pc = "compositor"
              /\ passes'[p].pc \in {"awaitTop", "awaitBottom", "done"})
                => /\ YieldsSolid(passes'[p].stackup)
                   /\ \E i \in 1..Len(pcbGroup') :
                         pcbGroup'[i].kind = "board" /\ pcbGroup'[i].pass = p
          /\ (~Finished(p) /\ passes'[p].pc \in {"returned", "failed"})
                => /\ camera' = camera
                   /\ \A i \in 1..Len(pcbGroup') : pcbGroup'[i].pass # p
          /\ (passes'[p].pc = passes[p].pc \/ passes'[p].pc # "done")
                => camera' # p \/ camera = p
          /\ (passes[p].pc # "done" /\ passes'[p].pc = "done")
                => /\ camera' = p
                   /\ YieldsSolid(passes'[p].stackup)
                   /\ \A s \in Sides :
                         LET doc == IF s = "top" THEN passes'[p].stackup.top
                                    ELSE passes'[p].stackup.bottom
                         IN  HasArtwork(doc) <=> passes'[p].settled[s].event # "none"]_vars

\* C11 witness: pass 1 framed the camera after its top texture was made and
\* its bottom decode failed; pass 2 then returned on an outline defect and
\* the camera is still where pass 1 put it.
C11_Witness ==
    /\ camera = 1
    /\ passes[1].pc = "done"
    /\ passes[1].settled["top"] = Settled("onload", TRUE)
    /\ passes[1].settled["bottom"] = Settled("onerror", FALSE)
    /\ passes[2].pc = "returned"

\* The blob URLs svgToTexture created for its decodes.
TextureUrls == {u \in blobUrls : u.by = "svgToTexture"}

\* C12: every blob URL svgToTexture creates is revoked exactly once, in the
\* step that settles its promise, whether the decode gave a texture, the
\* viewBox was rejected in onload, or the image failed to load; it is
\* unrevoked exactly while its pass awaits that decode, so when no pass is
\* awaiting a decode no URL of svgToTexture is left unrevoked.
C12_DecodeUrlRevokedOnce ==
    /\ \A u \in TextureUrls :
          /\ u.revoked <= 1
          /\ u.revoked = 1 <=> passes[u.pass].settled[u.side].event \in {"onload", "onerror"}
          /\ u.revoked = 0 <=>
                /\ passes[u.pass].pc = (IF u.side = "top" THEN "awaitTop" ELSE "awaitBottom")
                /\ passes[u.pass].promise = "pending"
    /\ \A p \in Passes : \A side \in Sides :
          passes[p].settled[side].event \in {"onload", "onerror"} =>
             Cardinality({u \in TextureUrls : u.pass = p /\ u.side = side}) = 1
    /\ (\A p \in Passes : ~Suspended(p)) => \A u \in TextureUrls : u.revoked = 1

\* C12 witness: both passes have ended, and between them a decode gave a
\* texture, a decode was rejected in onload for its viewBox and a decode
\* failed; each of the three URLs is revoked.
C12_Witness ==
    /\ \A p \in Passes : passes[p].pc = "done"
    /\ \E u \in TextureUrls :
          u.revoked = 1 /\ passes[u.pass].settled[u.side] = Settled("onload", TRUE)
    /\ \E u \in TextureUrls :
          u.revoked = 1 /\ passes[u.pass].settled[u.side] = Settled("onload", FALSE)
    /\ \E u \in TextureUrls :
          u.revoked = 1 /\ passes[u.pass].settled[u.side] = Settled("onerror", FALSE)

\* The textures of a side that were created and never disposed.
LiveTextures(side) == {t \in textures : t.side = side}

\* C13: when no render pass is in flight, at most one texture per side is
\* live: the textures a pass created are disposed when a later pass replaces
\* the contents of pcbGroup.
C13_PreviousTexturesReleased ==
    (\A p \in Passes : Started(p) => Finished(p)) =>
       \A side \in Sides : Cardinality(LiveTextures(side)) <= 1

\* C14: when every started decode eventually fires onload or onerror, every
\* pass that installed a board solid and awaits a texture eventually reaches
\* its end, where the camera is framed (a pass without artwork reaches it in
\* the step that installs the solid), also when both of its textures fail; a pass awaiting a pending decode moves only by
\* that decode's onload or onerror (nothing times it out) and frames the
\* camera no earlier, while the callbacks of the other passes stay enabled.
C14_InstalledPassEventuallyFrames ==
    /\ \A p \in Passes :
          Suspended(p) ~> passes[p].pc = "done"
    /\ [][\A p \in Passes :
             (Suspended(p) /\ passes[p].promise = "pending" /\ passes'[p] # passes[p])
                => passes'[p].settled[AwaitedSide(p)].event \in {"onload", "onerror"}]_vars
    /\ [](\A p, q \in Passes :
             (Suspended(p) /\ passes[p].promise = "pending") =>
                /\ camera # p
                /\ passes[q].pc = "compositor" => ENABLED PcbStackupReject(q)
                /\ (q # p /\ Suspended(q) /\ passes[q].promise = "pending")
                      => ENABLED ImgOnload(q))

\* C14 witness: pass 1 framed the camera although both of its decodes
\* failed, while pass 2 is still awaiting a decode.
C14_Witness ==
    /\ passes[1].pc = "done"
    /\ camera = 1
    /\ passes[1].settled["top"] = Settled("onerror", FALSE)
    /\ passes[1].settled["bottom"] = Settled("onerror", FALSE)
    /\ Suspended(2) /\ passes[2].promise = "pending"

\* The outline layer from which the board solid at position i was built.
OutlineOfBoard(i) == FirstOutline(passes[pcbGroup[i].pass].stackup)
Boards == {i \in 1..Len(pcbGroup) : pcbGroup[i].kind = "board"}

\* C15 (as stated): the solid of a ready-markup outline has scale 1, and the
\* solid of every raw-fragment outline has the scale declaredWidth /
\* viewBoxWidth, so that its viewBox width scaled is its declared width.
C15_RawScaleIsWidthRatio ==
    \A i \in Boards :
       LET o == OutlineOfBoard(i)
           viewBoxWidth == o.converter.viewBox[3] - o.converter.viewBox[1]
       IN  IF o.svg # NoMarkup
           THEN pcbGroup[i].scale = UnitScale
           ELSE pcbGroup[i].scale[1] * viewBoxWidth = pcbGroup[i].scale[2] * o.converter.width

\* C15 (amended): ready markup is used with scale 1 whenever it is present;
\* a raw-fragment outline gets the scale declaredWidth / viewBoxWidth when the
\* declared width is non-zero and the viewBox width is positive (a declared
\* width of twice the viewBox width then gives scale 2), and scale 1 otherwise.
C15_RawScaleIsGuardedWidthRatio ==
    \A i \in Boards :
       LET o == OutlineOfBoard(i)
           viewBoxWidth == o.converter.viewBox[3] - o.converter.viewBox[1]
       IN  IF o.svg # NoMarkup
           THEN pcbGroup[i].scale = UnitScale
           ELSE IF o.converter.width # 0 /\ viewBoxWidth > 0
           THEN /\ pcbGroup[i].scale = <<o.converter.width, viewBoxWidth>>
                /\ o.converter.width = 2 * viewBoxWidth
                      => pcbGroup[i].scale[1] = 2 * pcbGroup[i].scale[2]
           ELSE pcbGroup[i].scale = UnitScale

\* C15 witness: the solid of a raw-fragment outline of declared width 4 and
\* viewBox width 2 is in the group with scale 4 / 2.
C15_Witness ==
    \E i \in Boards :
       /\ OutlineOfBoard(i) = OutlineRaw("closed", WideBox, 4)
       /\ pcbGroup[i].scale = <<4, 2>>

\* C16: every overlay in pcbGroup has the board solid of its own render pass
\* in pcbGroup with it.
C16_OverlayHasItsOwnSolid ==
    \A i \in 1..Len(pcbGroup) :
       pcbGroup[i].kind \in Sides => InGroup("board", pcbGroup[i].pass)

\* The layer records of the complete archive f, once its entries are known.
ArchiveLayers(f) == {[filename |-> e, gerber |-> f] : e \in loads[f].entries}
Opened(f) == loads[f].pc \in {"reading", "settled", "failed"}

\* C17: the layer list of every started render pass is the complete set of
\* entries of one opened archive, each entry once.
C17_PassGetsOneWholeArchive ==
    \A p \in Passes :
       Started(p) =>
          \E f \in Files :
             /\ Opened(f)
             /\ Len(passes[p].layers) = Cardinality(loads[f].entries)
             /\ {passes[p].layers[i] : i \in 1..Len(passes[p].layers)} = ArchiveLayers(f)

\* C18: when no render pass is in flight and every started pass got its
\* compositor result, the cached stackup and the thumbnails are those of the
\* pass started last, and so is every child of pcbGroup.
C18_ViewsDeriveFromLatestPass ==
    (nextPass > 0 /\ \A p \in Passes : Started(p) => passes[p].pc \in {"done", "returned"}) =>
       /\ cachedBy = nextPass
       /\ currentStackup = passes[nextPass].stackup
       /\ thumbs = [s \in Sides |-> Thumb(passes[nextPass].stackup, s)]
       /\ \A i \in 1..Len(pcbGroup) : pcbGroup[i].pass = nextPass

\* No archive is being opened or read and no compositor call is pending.
Quiescent ==
    /\ \A f \in Files : loads[f].pc \in {"idle", "settled", "failed"}
    /\ \A p \in Passes : passes[p].pc # "compositor"

\* C19: once the archive read and the compositor calls have settled, the
\* loading message is hidden.
C19_LoadingMessageHiddenWhenSettled ==
    Quiescent => loadingMessage = "none"

\* C20: the step in which a file load fails leaves the data store as it was
\* when the file was selected.
C20_FailedLoadKeepsStore ==
    [][\A f \in Files :
          (loads[f].pc \in {"opening", "reading"} /\ loads'[f].pc = "failed")
             => loadedLayers' = loads[f].before]_vars

====
